---- MODULE Spec2Model ----
(***************************************************************************)
(* A model of the processing core of linguist_toolkit: the file name       *)
(* sanitizers, the input validators and the batch runners of               *)
(* youtube_downloader.py, audio_converter.py, you2wav.py, you2text.py,     *)
(* tok2wav.py and image_to_text.py.                                        *)
(*                                                                         *)
(* Strings are sequences of characters.  An ASCII character is the one     *)
(* character string of itself; a character outside ASCII is named          *)
(* ("e_acute" is U+00E9).                                                  *)
(***************************************************************************)
EXTENDS Integers, Sequences, FiniteSets, TLC

(***************************************************************************)
(* Bounds of the model.                                                    *)
(***************************************************************************)
MaxTitleLen == 3
MaxCap == 4
MaxLines == 3
MaxImages == 2
MaxWorkers == 2
MaxCpu == 2
MaxCpuCount == 64

Min(a, b) == IF a <= b THEN a ELSE b
Max(a, b) == IF a >= b THEN a ELSE b

RECURSIVE Flatten(_)
Flatten(ss) == IF ss = <<>> THEN <<>> ELSE Head(ss) \o Flatten(Tail(ss))

SeqsUpTo(S, n) == UNION {[1..k -> S] : k \in 0..n}

(***************************************************************************)
(* The characters of the model and what Python's unicodedata, re and the   *)
(* UTF-8 codec say of each:                                                *)
(*   A-Z a-z    ASCII letters                  0-9     ASCII digits        *)
(*   _ - . ! / ? : < >   ASCII marks           " "     the space           *)
(*   e_acute    U+00E9 = e + U+0301            acute   U+0301 (Mn)         *)
(*   han        U+4E2D, three bytes of UTF-8                               *)
(*   ga         U+AC00 = U+1100 + U+1161       kiyeok, a_jamo  the two jamo*)
(*   replacement  U+FFFD, what a decoder puts for bytes it cannot decode   *)
(***************************************************************************)
UpperLetters == <<"A", "B", "C", "D", "E", "F", "G", "H", "I", "J", "K", "L", "M",
                  "N", "O", "P", "Q", "R", "S", "T", "U", "V", "W", "X", "Y", "Z">>
LowerLetters == <<"a", "b", "c", "d", "e", "f", "g", "h", "i", "j", "k", "l", "m",
                  "n", "o", "p", "q", "r", "s", "t", "u", "v", "w", "x", "y", "z">>
Digits == {"0", "1", "2", "3", "4", "5", "6", "7", "8", "9"}

UpperSet == {UpperLetters[i] : i \in 1..26}
LowerSet == {LowerLetters[i] : i \in 1..26}
LowerOf == [c \in UpperSet |-> LowerLetters[CHOOSE i \in 1..26 : UpperLetters[i] = c]]

\* The characters of the titles.
TitleChars == {"a", "_", " ", "?", ".", "/", "e_acute", "han", "ga"}

\* max_length=255, the default of every sanitize_filename, which no caller
\* overrides.
DefaultMaxLength == 255

\* unicodedata.normalize('NFKD', c) of one character.
Nfkd(c) ==
    CASE c = "e_acute" -> <<"e", "acute">>
      [] c = "ga" -> <<"kiyeok", "a_jamo">>
      [] OTHER -> <<c>>

\* unicodedata.normalize('NFD', c) of one character.
Nfd(c) ==
    CASE c = "e_acute" -> <<"e", "acute">>
      [] c = "ga" -> <<"kiyeok", "a_jamo">>
      [] OTHER -> <<c>>

\* The primary composites of canonical composition (NFC).
Composable(c, d) == <<c, d>> \in {<<"e", "acute">>, <<"kiyeok", "a_jamo">>}
Compose(c, d) == IF c = "e" THEN "e_acute" ELSE "ga"

\* \w of a str pattern: alphanumeric in the Unicode database, or "_".
IsWord(c) ==
    c \in UpperSet \cup LowerSet \cup Digits \cup {"_", "han", "ga", "kiyeok", "a_jamo"}

\* \s of a str pattern.
IsSpace(c) == c \in {" ", "\t"}

\* The number of bytes of c in UTF-8.
Utf8Len(c) ==
    CASE c \in {"e_acute", "acute"} -> 2
      [] c \in {"han", "ga", "kiyeok", "a_jamo", "replacement"} -> 3
      [] OTHER -> 1

IsAscii(c) == Utf8Len(c) = 1

normalize_NFKD(s) == Flatten([i \in 1..Len(s) |-> Nfkd(s[i])])
normalize_NFD(s) == Flatten([i \in 1..Len(s) |-> Nfd(s[i])])

RECURSIVE normalize_NFC(_)
normalize_NFC(s) ==
    IF Len(s) < 2 THEN s
    ELSE IF Composable(s[1], s[2])
         THEN normalize_NFC(<<Compose(s[1], s[2])>> \o SubSeq(s, 3, Len(s)))
         ELSE <<s[1]>> \o normalize_NFC(Tail(s))

\* The pattern with "/" among the characters it keeps: [^\w\s/-].
IsIllegalKeepsSlash(c) == ~(IsWord(c) \/ IsSpace(c) \/ c \in {"-", "/"})

\* ILLEGAL_CHAR_PATTERN = [^\w\s-] : the characters the pattern matches.
IsIllegal(c) == ~(IsWord(c) \/ IsSpace(c) \/ c = "-")

\* tok2wav's ILLEGAL_CHAR_PATTERN = [\\/*?:"<>|].
IsIllegalTok(c) == c \in {"\\", "/", "*", "?", ":", "\"", "<", ">", "|"}

\* ILLEGAL_CHAR_PATTERN.sub('', s): the pattern matches single characters.
RemoveIllegal(s) == SelectSeq(s, LAMBDA c : ~IsIllegal(c))

RemoveIllegalTok(s) == SelectSeq(s, LAMBDA c : ~IsIllegalTok(c))

\* SPACE_PATTERN.sub('_', s): every maximal run of whitespace becomes one "_".
RECURSIVE SpaceSub(_)
SpaceSub(s) ==
    IF s = <<>> THEN <<>>
    ELSE IF IsSpace(s[1])
         THEN IF Len(s) >= 2 /\ IsSpace(s[2])
              THEN SpaceSub(Tail(s))
              ELSE <<"_">> \o SpaceSub(Tail(s))
         ELSE <<s[1]>> \o SpaceSub(Tail(s))

RECURSIVE RStrip(_, _)
RStrip(s, c) ==
    IF s # <<>> /\ s[Len(s)] = c THEN RStrip(SubSeq(s, 1, Len(s) - 1), c) ELSE s

RECURSIVE LStrip(_, _)
LStrip(s, c) == IF s # <<>> /\ s[1] = c THEN LStrip(Tail(s), c) ELSE s

\* str.strip(c)
Strip(s, c) == RStrip(LStrip(s, c), c)

\* s.encode('utf-8'): byte k of the n bytes of character c is <<c, k>>.
EncodeUtf8(s) ==
    Flatten([i \in 1..Len(s) |-> [k \in 1..Utf8Len(s[i]) |-> <<s[i], k>>]])

\* b[:n] for n >= 0.
Slice(b, n) == SubSeq(b, 1, Min(n, Len(b)))

\* bytes.decode('utf-8', 'replace') of a prefix of an encoding: the bytes of a
\* cut character become U+FFFD.
DecodeReplace(b) ==
    LET lasts == SelectSeq(b, LAMBDA x : x[2] = Utf8Len(x[1]))
        whole == [i \in 1..Len(lasts) |-> lasts[i][1]]
    IN  IF b # <<>> /\ b[Len(b)][2] < Utf8Len(b[Len(b)][1])
        THEN Append(whole, "replacement") ELSE whole

\* bytes.decode('utf-8', 'ignore') of a prefix of an encoding: the characters
\* whose bytes are all there; the bytes of a cut character are dropped.
DecodeIgnore(b) ==
    LET lasts == SelectSeq(b, LAMBDA x : x[2] = Utf8Len(x[1]))
    IN  [i \in 1..Len(lasts) |-> lasts[i][1]]

\* sanitize_filename with the trailing "_" stripped before the cut at the byte
\* cap instead of after it.
sanitize_filename_strip_first(title, max_length) ==
    LET s1 == normalize_NFKD(title)
        s2 == RemoveIllegal(s1)
        s3 == RStrip(Strip(SpaceSub(s2), "."), "_")
        s4 == DecodeIgnore(Slice(EncodeUtf8(s3), max_length))
    IN  normalize_NFC(s4)

\* sanitize_filename of youtube_downloader.py, and the same function of
\* audio_converter.py, you2wav.py and you2text.py.
sanitize_filename(title, max_length) ==
    LET s1 == normalize_NFKD(title)
        s2 == RemoveIllegal(s1)
        s3 == Strip(SpaceSub(s2), ".")
        s4 == RStrip(DecodeIgnore(Slice(EncodeUtf8(s3), max_length)), "_")
    IN  normalize_NFC(s4)

\* sanitize_filename of tok2wav.py.
tok_sanitize_filename(title, max_length) ==
    LET t1 == SelectSeq(normalize_NFD(title), IsAscii)
        t2 == RemoveIllegalTok(t1)
        t3 == SpaceSub(t2)
    IN  RStrip(Slice(t3, max_length), "_")

SanVariants == {"nfkd", "tok2wav"}
Sanitize(v, title, max_length) ==
    IF v = "nfkd" THEN sanitize_filename(title, max_length)
    ELSE tok_sanitize_filename(title, max_length)

(***************************************************************************)
(* The validators.  A pattern is matched the way re does it: the set of    *)
(* positions at which the text can stand after each part of the pattern.   *)
(***************************************************************************)
\* str.lower() of one ASCII character.
Lower(c) == IF c \in UpperSet THEN LowerOf[c] ELSE c
IsLetter(c) == Lower(c) \in LowerSet

\* The character as the pattern sees it: folded under re.IGNORECASE.
Fold(c, ignorecase) == IF ignorecase THEN Lower(c) ELSE c

\* The literal lit (in lower case) stands in s at position p.
HasAt(s, p, lit, ignorecase) ==
    /\ p + Len(lit) - 1 <= Len(s)
    /\ \A k \in 1..Len(lit) : Fold(s[p + k - 1], ignorecase) = lit[k]

\* The positions after the literal, each one character short.
AfterOneShort(P, s, lit, ignorecase) ==
    {p + Len(lit) - 1 : p \in {q \in P : HasAt(s, q, lit, ignorecase)}}

\* The positions after the literal, from the positions P before it.
After(P, s, lit, ignorecase) ==
    {p + Len(lit) : p \in {q \in P : HasAt(s, q, lit, ignorecase)}}

\* The end of the text as $ sees it: the end, or before one last newline.
Ends(s) == {Len(s) + 1} \cup (IF s # <<>> /\ s[Len(s)] = "\n" THEN {Len(s)} ELSE {})

\* str.strip()
RECURSIVE StripSpace(_)
StripSpace(s) ==
    IF s # <<>> /\ (IsSpace(s[1]) \/ s[1] = "\n") THEN StripSpace(Tail(s))
    ELSE IF s # <<>> /\ (IsSpace(s[Len(s)]) \/ s[Len(s)] = "\n")
         THEN StripSpace(SubSeq(s, 1, Len(s) - 1))
         ELSE s

L_http == <<"h", "t", "t", "p", ":", "/", "/">>
L_https == <<"h", "t", "t", "p", "s", ":", "/", "/">>
L_www == <<"w", "w", "w", ".">>
L_youtube == <<"y", "o", "u", "t", "u", "b", "e", ".">>
L_com_watch == <<"c", "o", "m", "/", "w", "a", "t", "c", "h", "?", "v", "=">>
L_watch == <<"/", "w", "a", "t", "c", "h", "?", "v", "=">>
L_youtu_be == <<"y", "o", "u", "t", "u", ".", "b", "e", "/">>
L_tiktok == <<"t", "i", "k", "t", "o", "k", ".", "c", "o", "m", "/", "@">>
L_video == <<"/", "v", "i", "d", "e", "o", "/">>

\* YOUTUBE_URL_REGEX.match(url): the same pattern in youtube_downloader.py,
\* audio_converter.py, you2wav.py and you2text.py, compiled with re.IGNORECASE.
YoutubeRegexMatch(s) ==
    LET P1 == {1} \cup After({1}, s, L_http, TRUE) \cup After({1}, s, L_https, TRUE)
        P2 == P1 \cup After(P1, s, L_www, TRUE)
        Y == After(P2, s, L_youtube, TRUE)
        Tld == {p + n : p \in Y, n \in {2, 3}}
        T == {q \in Tld : /\ q - 1 <= Len(s)
                          /\ \E p \in Y : /\ q - p \in {2, 3}
                                          /\ \A k \in p..(q - 1) : IsLetter(s[k])}
        P3 == After(Y, s, L_com_watch, TRUE) \cup After(T, s, L_watch, TRUE)
                 \cup After(P2, s, L_youtu_be, TRUE)
    IN  \E p \in P3 : \E e \in Ends(s) :
            /\ p < e
            /\ \A k \in p..(e - 1) : ~(s[k] = "&" \/ IsSpace(s[k]) \/ s[k] = "\n")

\* is_valid_youtube_url of youtube_downloader.py: the url is stripped first.
is_valid_youtube_url_strip(url) == YoutubeRegexMatch(StripSpace(url))

\* is_valid_youtube_url of audio_converter.py, you2wav.py and you2text.py.
is_valid_youtube_url(url) == YoutubeRegexMatch(url)

\* is_valid_tiktok_url of tok2wav.py: pattern.match(url), case sensitive.
is_valid_tiktok_url(url) ==
    LET P1 == After({1}, url, L_http, FALSE) \cup After({1}, url, L_https, FALSE)
        P2 == P1 \cup After(P1, url, L_www, FALSE)
        U == After(P2, url, L_tiktok, FALSE)
        \* [^/]+
        N == {q \in 2..(Len(url) + 1) :
                \E p \in U : p < q /\ \A k \in p..(q - 1) : url[k] # "/"}
        V == After(N, url, L_video, FALSE)
        \* \d+
        D == {q \in 2..(Len(url) + 1) :
                \E p \in V : p < q /\ \A k \in p..(q - 1) : url[k] \in Digits}
        \* (\?.*)?
        Q == D \cup {q \in 2..(Len(url) + 1) :
                \E p \in D : /\ p < q
                             /\ url[p] = "?"
                             /\ \A k \in (p + 1)..(q - 1) : url[k] # "\n"}
    IN  Q \cap Ends(url) # {}

L_jpg == <<".", "j", "p", "g">>
L_jpeg == <<".", "j", "p", "e", "g">>
L_png == <<".", "p", "n", "g">>
L_gif == <<".", "g", "i", "f">>
L_bmp == <<".", "b", "m", "p">>
L_tif == <<".", "t", "i", "f">>
L_tiff == <<".", "t", "i", "f", "f">>

\* is_image_file of image_to_text.py: re.search of \.(jpe?g|png|gif|bmp|tiff?)$
is_image_file(filename) ==
    \E lit \in {L_jpg, L_jpeg, L_png, L_gif, L_bmp, L_tif, L_tiff} :
        \E p \in 1..Len(filename) :
            /\ HasAt(filename, p, lit, TRUE)
            /\ p + Len(lit) \in Ends(filename)

(***************************************************************************)
(* The batch runners.                                                      *)
(*   youtube_downloader  YouTubeDownloader.download_videos_from_file       *)
(*   image_to_text       extract_text_from_images                          *)
(*   audio_converter     download_videos_from_file                         *)
(*   you2wav             download_videos_from_file                         *)
(*   you2text            download_subtitles_from_file                      *)
(*   tok2wav             main                                              *)
(* The first two hand their items to a ThreadPoolExecutor; the others call *)
(* the worker for one item after the other.                                *)
(***************************************************************************)
PoolRunners == {"youtube_downloader", "image_to_text"}
SeqRunners == {"audio_converter", "you2wav", "you2text", "tok2wav"}
Runners == PoolRunners \cup SeqRunners

\* The lines of an input file, and the names of a directory.
UrlA == L_https \o L_youtu_be \o <<"a">>
UrlPadded == <<" ">> \o L_youtu_be \o <<"b">> \o <<" ">>
NotUrl == <<"n", "o", "t", " ", "a", " ", "u", "r", "l">>
TikA == L_https \o L_www \o L_tiktok \o <<"u">> \o L_video \o <<"1">>
TikPadded == <<" ">> \o TikA \o <<" ">>
Blank == <<" ">>
ImgA == <<"a">> \o L_png
ImgB == <<"b", ".", "J", "P", "G">>
ImgC == <<"c">> \o L_tiff
NotImg == <<"n", ".", "t", "x", "t">>

InputLines(r) ==
    CASE r = "image_to_text" -> {ImgA, ImgB, ImgC, NotImg}
      [] r = "tok2wav" -> {TikA, TikPadded, NotUrl, UrlA, Blank}
      [] r = "youtube_downloader" -> {UrlA, UrlPadded, NotUrl}
      [] OTHER -> {UrlA, UrlPadded, NotUrl, Blank}

\* The inputs of a run: the lines of urls.txt in any number and order; the
\* names of a directory, each once.
RawInputs(r) ==
    IF r = "image_to_text"
    THEN {q \in SeqsUpTo(InputLines(r), MaxImages) :
            \A i, j \in 1..Len(q) : i # j => q[i] # q[j]}
    ELSE SeqsUpTo(InputLines(r), MaxLines)

\* The test a runner puts a raw line to.
Validate(r, line) ==
    CASE r = "youtube_downloader" -> is_valid_youtube_url_strip(StripSpace(line))
      [] r \in {"audio_converter", "you2text"} -> is_valid_youtube_url(StripSpace(line))
      [] r = "you2wav" -> is_valid_youtube_url(line)
      [] r = "tok2wav" -> is_valid_tiktok_url(line)
      [] r = "image_to_text" -> is_image_file(line)

\* The lines each runner's test accepts, of the lines a run can read: the
\* regular expressions are matched once per line, not once per state.
AcceptedLines == [r \in Runners |-> {l \in InputLines(r) : Validate(r, l)}]

Accepts(r, line) == line \in AcceptedLines[r]

\* The item a runner keeps of a line it accepts.
Item(r, line) ==
    IF r \in {"youtube_downloader", "audio_converter", "you2text"}
    THEN StripSpace(line) ELSE line

\* The list a runner would build if it tested nothing.
ValidUrlsNoFilter(r, lines) == [i \in 1..Len(lines) |-> Item(r, lines[i])]

\* urls = [line.strip() for line in lines if is_valid(line.strip())], and the
\* same list as each runner builds it.  tok2wav's main tests each line as its
\* loop reaches it, which calls the worker for the same lines in the same order.
ValidUrls(r, lines) ==
    LET kept == SelectSeq(lines, LAMBDA l : Accepts(r, l))
    IN  [i \in 1..Len(kept) |-> Item(r, kept[i])]

\* A runner that goes on to its executor or its loop with an empty list.
ReturnsEarlyNever(r, q) == FALSE

\* A runner with a list of no items returns before its loop.
ReturnsEarly(r, q) == q = <<>> /\ r \notin {"tok2wav", "image_to_text"}

\* executor_workers without the cap: max(4, multiprocessing.cpu_count() + 4)
ExecutorWorkersNoCap(cpu) == Max(4, cpu + 4)

\* executor_workers = min(32, max(4, multiprocessing.cpu_count() + 4))
ExecutorWorkers(cpu) == Min(32, Max(4, cpu + 4))

\* What can happen inside the worker's call for one item.
Events(r) ==
    CASE r = "youtube_downloader" -> {"ok", "DownloadError", "Exception", "FileMissing"}
      [] r = "audio_converter" -> {"ok", "DownloadError", "Exception"}
      [] r = "you2wav" -> {"ok", "Exception", "TitleError"}
      [] r = "you2text" -> {"ok", "DownloadError", "NoSubtitles", "Exception"}
      [] r = "tok2wav" -> {"ok", "Exception", "BadStatus"}
      [] r = "image_to_text" -> {"ok", "Exception"}

\* YouTubeDownloader.download_video_and_audio: every Exception is caught.
download_video_and_audio(url, e) ==
    IF ~is_valid_youtube_url_strip(url) THEN "False"
    ELSE IF e = "ok" THEN "True" ELSE "False"

\* download_and_process_video of audio_converter.py: only DownloadError is
\* caught.
conv_download_and_process_video(url, e) ==
    IF ~is_valid_youtube_url(url) THEN "False"
    ELSE CASE e = "ok" -> "True"
           [] e = "DownloadError" -> "False"
           [] OTHER -> "Raise"

\* download_and_process_video of you2wav.py, ffmpeg being the cache after its
\* call of check_ffmpeg_installed(): None when that call raised, which
\* nothing catches; a bare return without FFmpeg or for an invalid url;
\* YouTube(video_url) and yt.title run before the try.
y2w_download_and_process_video(url, e, ffmpeg) ==
    IF ffmpeg = "None" THEN "Raise"
    ELSE IF ffmpeg = "False" THEN "None"
    ELSE IF ~is_valid_youtube_url(url) THEN "None"
    ELSE CASE e = "ok" -> "True"
           [] e = "TitleError" -> "Raise"
           [] OTHER -> "False"

\* What a call of download_subtitles gave and did: the outcome (the success
\* flag, or Raise), the message, the calls of ydl.download and the track the
\* branch taken names.
Run(outcome, message, downloads, track) ==
    [outcome |-> outcome, message |-> message, downloads |-> downloads,
     track |-> track]

\* download_subtitles with no branch for the automatic captions.
SubtitleRunManualOnly(url, manual, auto, e_info, e_download) ==
    IF ~is_valid_youtube_url(url) THEN Run("False", "Invalid URL", 0, "-")
    ELSE IF e_info = "DownloadError"
    THEN Run("False", "Error downloading subtitles", 0, "-")
    ELSE IF e_info # "ok" THEN Run("Raise", "-", 0, "-")
    ELSE IF ~manual THEN Run("False", "No subtitles found", 0, "-")
    ELSE IF e_download = "DownloadError"
    THEN Run("False", "Error downloading subtitles", 1, "manual")
    ELSE IF e_download # "ok" THEN Run("Raise", "-", 1, "manual")
    ELSE Run("True", "Downloaded subtitles", 1, "manual")

\* download_subtitles of you2text.py, step by step: the url is tested;
\* ydl.extract_info gives the info or raises; lang is looked up in the manual
\* subtitles, then in the automatic captions; ydl.download is called unless
\* lang is in neither.  Only DownloadError is caught.
SubtitleRun(url, manual, auto, e_info, e_download) ==
    IF ~is_valid_youtube_url(url) THEN Run("False", "Invalid URL", 0, "-")
    ELSE IF e_info = "DownloadError"
    THEN Run("False", "Error downloading subtitles", 0, "-")
    ELSE IF e_info # "ok" THEN Run("Raise", "-", 0, "-")
    ELSE IF ~manual /\ ~auto THEN Run("False", "No subtitles found", 0, "-")
    ELSE LET track == IF manual THEN "manual" ELSE "auto"
         IN  IF e_download = "DownloadError"
             THEN Run("False", "Error downloading subtitles", 1, track)
             ELSE IF e_download # "ok" THEN Run("Raise", "-", 1, track)
             ELSE Run("True", "Downloaded subtitles", 1, track)

\* download_subtitles of you2text.py as its runner sees it: what it gives for
\* a url when e happens in it.
download_subtitles(url, e) ==
    SubtitleRun(url, e # "NoSubtitles", FALSE,
                IF e \in {"DownloadError", "Exception"} THEN e ELSE "ok",
                "ok").outcome

\* download_tiktok_video of tok2wav.py: every path logs and returns None.
download_tiktok_video(url, e) == "None"

\* What the worker's call gives its caller.
WorkerResult(r, url, e, ffmpeg) ==
    CASE r = "youtube_downloader" -> download_video_and_audio(url, e)
      [] r = "audio_converter" -> conv_download_and_process_video(url, e)
      [] r = "you2wav" -> y2w_download_and_process_video(url, e, ffmpeg)
      [] r = "you2text" -> download_subtitles(url, e)
      [] r = "tok2wav" -> download_tiktok_video(url, e)

\* The status line for a result, in a runner that always says Success.
LogStatusAlwaysSuccess(r, result) == "Success"

\* status = "Success" if success else "Failed"; the except branch of the pool
\* runners logs a failure; extract_text_from_images logs "Processed" for a
\* future that returned.
LogStatus(r, result) ==
    IF r = "image_to_text"
    THEN IF result = "Raise" THEN "Failed" ELSE "Processed"
    ELSE IF result = "True" THEN "Success" ELSE "Failed"

\* The end of session report of a run that reaches it, field by field: a fixed
\* text.  tok2wav's main ends without one.
SessionReport(r) ==
    CASE r \in {"youtube_downloader", "audio_converter", "you2wav"} ->
             <<"Download session completed.">>
      [] r = "you2text" -> <<"Subtitle download session completed.">>
      [] r = "image_to_text" -> <<"Text extraction completed.">>
      [] r = "tok2wav" -> <<>>

\* A loop over the futures that takes one whose call has begun for done.
FutureDoneOnceStarted(s) == s \in {"running", "writing", "finished"}

\* as_completed yields a future when its call has returned or raised.
FutureDone(s) == s = "finished"

\* ThreadPoolExecutor._adjust_thread_count with no bound on the threads.
CanSpawnThreadUnbounded(n, bound) == TRUE

\* ThreadPoolExecutor._adjust_thread_count: a thread is started for a submitted
\* item only while there are fewer than max_workers.
CanSpawnThread(n, bound) == n < bound

VARIABLES
    runner,         \* which batch runner runs
    raw,            \* the lines of the input file, or the names of the directory
    pc,             \* where the runner's main thread is
    urls,           \* the list of accepted items
    max_workers,    \* the size of the pool
    next,           \* the item the main thread submits or calls next
    st,             \* per item: new, queued, running, writing, finished
    res,            \* per item: what the worker's call gave
    calls,          \* per item: the calls of the worker made for it
    threads,        \* the worker threads started
    idle,           \* the executor's idle semaphore
    log,            \* the status lines the runner has recorded: <<item, status>>
    reported,       \* the runner reached its end of session report
    file,           \* extracted_text.txt: the raw writes, <<item, k, n>>
    blk,            \* per item: the raw writes its block takes
    wr,             \* per item: the raw writes done
    interrupted,    \* a KeyboardInterrupt reached the main thread
    is_ffmpeg_installed_cache,
    probes,         \* the runs of "ffmpeg -version" made by check_ffmpeg_installed
    san_variant, san_title, san_cap, san_pc, san_out, san_out2,
    val_kind,       \* whose validator is called
    val_parts,      \* the text it is called on: <<scheme, www, host, rest>>
    val_pc,
    val_out,        \* the verdict on the text
    val_out_lower,  \* the verdict on the text with scheme and host in lower case
    pool_cpu,       \* multiprocessing.cpu_count()
    pool_pc,
    pool_size,      \* executor_workers
    sub_url,        \* the url download_subtitles is called with
    sub_manual,     \* lang in info_dict['subtitles']
    sub_auto,       \* lang in info_dict['automatic_captions']
    sub_e_info,     \* what ydl.extract_info does
    sub_e_download, \* what ydl.download does, if it is called
    sub_pc,
    sub_out         \* what the call gave and did

batch_vars == <<runner, raw, pc, urls, max_workers, next, st, res, calls, threads, idle,
                log, reported, file, blk, wr, interrupted, is_ffmpeg_installed_cache,
                probes>>
san_vars == <<san_variant, san_title, san_cap, san_pc, san_out, san_out2>>
val_vars == <<val_kind, val_parts, val_pc, val_out, val_out_lower>>
pool_vars == <<pool_cpu, pool_pc, pool_size>>
sub_vars == <<sub_url, sub_manual, sub_auto, sub_e_info, sub_e_download, sub_pc, sub_out>>
vars == <<batch_vars, san_vars, val_vars, pool_vars, sub_vars>>

N == Len(urls)
Items == 1..N
Running == Cardinality({i \in Items : st[i] \in {"running", "writing"}})
Logged(i) == \E k \in 1..Len(log) : log[k][1] = i

SanIdle ==
    /\ san_variant = "nfkd"
    /\ san_title = <<>>
    /\ san_cap = 0
    /\ san_pc = "idle"
    /\ san_out = <<>>
    /\ san_out2 = <<>>

BatchIdle ==
    /\ runner = "youtube_downloader"
    /\ raw = <<>>
    /\ pc = "idle"
    /\ urls = <<>>
    /\ max_workers = 0
    /\ next = 1
    /\ st = <<>>
    /\ res = <<>>
    /\ calls = <<>>
    /\ threads = 0
    /\ idle = 0
    /\ log = <<>>
    /\ reported = FALSE
    /\ file = <<>>
    /\ blk = <<>>
    /\ wr = <<>>
    /\ interrupted = FALSE
    /\ is_ffmpeg_installed_cache = "None"
    /\ probes = 0

\* A call of download_subtitles that has not been made.
NoRun == [outcome |-> "-", message |-> "-", downloads |-> 0, track |-> "-"]

PoolIdle ==
    /\ pool_cpu = 1
    /\ pool_pc = "idle"
    /\ pool_size = 0

SubIdle ==
    /\ sub_url = <<>>
    /\ sub_manual = FALSE
    /\ sub_auto = FALSE
    /\ sub_e_info = "ok"
    /\ sub_e_download = "ok"
    /\ sub_pc = "idle"
    /\ sub_out = NoRun

ValIdle ==
    /\ val_kind = "tok2wav"
    /\ val_parts = <<<<>>, <<>>, <<>>, <<>>>>
    /\ val_pc = "idle"
    /\ val_out = FALSE
    /\ val_out_lower = FALSE

(***************************************************************************)
(* The sanitizers applied to a title, and to the name they gave.           *)
(***************************************************************************)
\* A title with reserved characters and spaces: My: Video? <Test>
ScenarioTitle ==
    <<"M", "y", ":", " ", "V", "i", "d", "e", "o", "?", " ", "<", "T", "e", "s", "t", ">">>

\* A caller holds a title and a byte cap and has not sanitized yet.  The
\* callers of the repository pass no cap, which is then DefaultMaxLength.
SanInit ==
    /\ san_variant \in SanVariants
    /\ san_title \in SeqsUpTo(TitleChars, MaxTitleLen) \cup {ScenarioTitle}
    /\ san_cap \in 0..MaxCap \cup {DefaultMaxLength}
    /\ san_pc = "title"
    /\ san_out = <<>>
    /\ san_out2 = <<>>
    /\ BatchIdle
    /\ ValIdle
    /\ PoolIdle
    /\ SubIdle

\* name = sanitize_filename(title, max_length)
SanApply ==
    /\ san_pc = "title"
    /\ san_out' = Sanitize(san_variant, san_title, san_cap)
    /\ san_pc' = "once"
    /\ UNCHANGED <<san_variant, san_title, san_cap, san_out2, batch_vars, val_vars, pool_vars, sub_vars>>

\* name2 = sanitize_filename(name, max_length)
SanReapply ==
    /\ san_pc = "once"
    /\ san_out2' = Sanitize(san_variant, san_out, san_cap)
    /\ san_pc' = "twice"
    /\ UNCHANGED <<san_variant, san_title, san_cap, san_out, batch_vars, val_vars, pool_vars, sub_vars>>

SanNext == SanApply \/ SanReapply

SpecSanitize == SanInit /\ [][SanNext]_vars

(***************************************************************************)
(* The validators applied to a text.                                       *)
(***************************************************************************)
\* The validators of the repository: YouTubeDownloader.is_valid_youtube_url,
\* the is_valid_youtube_url of the three other YouTube scripts, and
\* is_valid_tiktok_url.
ValKinds == {"youtube_downloader", "audio_converter", "tok2wav"}

Validator(kind, url) ==
    CASE kind = "youtube_downloader" -> is_valid_youtube_url_strip(url)
      [] kind = "audio_converter" -> is_valid_youtube_url(url)
      [] kind = "tok2wav" -> is_valid_tiktok_url(url)

\* The texts a validator is called on, in four parts.
Schemes == {<<>>, L_http, L_https,
            <<"H", "T", "T", "P", "S", ":", "/", "/">>,
            <<"H", "t", "t", "p", ":", "/", "/">>}
Wwws == {<<>>, L_www, <<"W", "w", "W", ".">>}
Hosts == {<<>>,
          L_youtube \o <<"c", "o", "m">>,
          <<"Y", "o", "u", "T", "u", "b", "e", ".", "C", "O", "M">>,
          L_youtube \o <<"d", "e">>,
          <<"y", "o", "u", "t", "u", ".", "b", "e">>,
          <<"Y", "O", "U", "T", "U", ".", "B", "E">>,
          <<"t", "i", "k", "t", "o", "k", ".", "c", "o", "m">>,
          <<"T", "i", "k", "T", "o", "k", ".", "c", "o", "m">>}
Rests == {<<>>, L_watch \o <<"a">>, <<"/", "a">>, <<"/", "a", " ">>,
          <<"/", "@", "u">> \o L_video \o <<"1">>}

UrlOf(parts) == parts[1] \o parts[2] \o parts[3] \o parts[4]

\* str.lower() of the scheme and the host of a text.
LowerStr(t) == [i \in 1..Len(t) |-> Lower(t[i])]
LowerSchemeHost(parts) ==
    <<LowerStr(parts[1]), LowerStr(parts[2]), LowerStr(parts[3]), parts[4]>>

ValInit ==
    /\ val_kind \in ValKinds
    /\ val_parts \in Schemes \X Wwws \X Hosts \X Rests
    /\ val_pc = "url"
    /\ val_out = FALSE
    /\ val_out_lower = FALSE
    /\ BatchIdle
    /\ SanIdle
    /\ PoolIdle
    /\ SubIdle

\* is_valid(url)
ValApply ==
    /\ val_pc = "url"
    /\ val_out' = Validator(val_kind, UrlOf(val_parts))
    /\ val_pc' = "once"
    /\ UNCHANGED <<val_kind, val_parts, val_out_lower, batch_vars, san_vars,
                 pool_vars, sub_vars>>

\* is_valid(url) for the same url with its scheme and host in lower case
ValApplyLower ==
    /\ val_pc = "once"
    /\ val_out_lower' = Validator(val_kind, UrlOf(LowerSchemeHost(val_parts)))
    /\ val_pc' = "done"
    /\ UNCHANGED <<val_kind, val_parts, val_out, batch_vars, san_vars,
                 pool_vars, sub_vars>>

ValNext == ValApply \/ ValApplyLower

SpecValidate == ValInit /\ [][ValNext]_vars

(***************************************************************************)
(* The size of the pool of extract_text_from_images on a machine.          *)
(***************************************************************************)
PoolInit ==
    /\ pool_cpu \in 1..MaxCpuCount
    /\ pool_pc = "cpu"
    /\ pool_size = 0
    /\ BatchIdle
    /\ SanIdle
    /\ ValIdle
    /\ SubIdle

\* executor_workers = min(32, max(4, multiprocessing.cpu_count() + 4))
PoolApply ==
    /\ pool_pc = "cpu"
    /\ pool_size' = ExecutorWorkers(pool_cpu)
    /\ pool_pc' = "sized"
    /\ UNCHANGED <<pool_cpu, batch_vars, san_vars, val_vars, sub_vars>>

PoolNext == PoolApply

SpecPool == PoolInit /\ [][PoolNext]_vars

(***************************************************************************)
(* A call of download_subtitles.                                           *)
(***************************************************************************)
SubEvents == {"ok", "DownloadError", "Exception"}

SubInit ==
    /\ sub_url \in {UrlA, UrlPadded, NotUrl}
    /\ sub_manual \in BOOLEAN
    /\ sub_auto \in BOOLEAN
    /\ sub_e_info \in SubEvents
    /\ sub_e_download \in SubEvents
    /\ sub_pc = "call"
    /\ sub_out = NoRun
    /\ BatchIdle
    /\ SanIdle
    /\ ValIdle
    /\ PoolIdle

\* success, message = download_subtitles(url, ...)
SubApply ==
    /\ sub_pc = "call"
    /\ sub_out' = SubtitleRun(sub_url, sub_manual, sub_auto, sub_e_info,
                              sub_e_download)
    /\ sub_pc' = "done"
    /\ UNCHANGED <<sub_url, sub_manual, sub_auto, sub_e_info, sub_e_download,
                   batch_vars, san_vars, val_vars, pool_vars>>

SubNext == SubApply

SpecSubtitles == SubInit /\ [][SubNext]_vars

(***************************************************************************)
(* A run of a batch runner.                                                *)
(***************************************************************************)
\* The input file is read (the directory is listed); nothing is started.  The
\* size of the pool of YouTubeDownloader is the max_workers it was built with.
Init ==
    /\ runner \in Runners
    /\ raw \in RawInputs(runner)
    /\ pc = "start"
    /\ urls = <<>>
    /\ max_workers \in (IF runner = "youtube_downloader" THEN 1..MaxWorkers ELSE {0})
    /\ next = 1
    /\ st = <<>>
    /\ res = <<>>
    /\ calls = <<>>
    /\ threads = 0
    /\ idle = 0
    /\ log = <<>>
    /\ reported = FALSE
    /\ file = <<>>
    /\ blk = <<>>
    /\ wr = <<>>
    /\ interrupted = FALSE
    /\ is_ffmpeg_installed_cache = "None"
    /\ probes = 0
    /\ SanIdle
    /\ ValIdle
    /\ PoolIdle
    /\ SubIdle

\* The runner builds its list of items, returns if it is empty, and otherwise
\* goes on to its executor or its loop.
Start ==
    /\ pc = "start"
    /\ LET q == ValidUrls(runner, raw)
       IN  /\ urls' = q
           /\ st' = [i \in 1..Len(q) |-> "new"]
           /\ res' = [i \in 1..Len(q) |-> "-"]
           /\ calls' = [i \in 1..Len(q) |-> 0]
           /\ blk' = [i \in 1..Len(q) |-> 0]
           /\ wr' = [i \in 1..Len(q) |-> 0]
           /\ pc' = IF ReturnsEarly(runner, q) THEN "done"
                    ELSE IF runner \in SeqRunners THEN "loop"
                    ELSE IF q = <<>> THEN "collect" ELSE "submit"
    /\ IF runner = "image_to_text"
       THEN \E cpu \in 1..MaxCpu : max_workers' = ExecutorWorkers(cpu)
       ELSE UNCHANGED max_workers
    /\ UNCHANGED <<runner, raw, next, threads, idle, log, reported, file,
                   interrupted, is_ffmpeg_installed_cache, probes, san_vars, val_vars, pool_vars, sub_vars>>

\* executor.submit(worker, item): the item is queued, and a thread is started
\* for it unless one is idle or the pool is full.
Submit ==
    /\ pc = "submit"
    /\ next <= N
    /\ st' = [st EXCEPT ![next] = "queued"]
    /\ IF idle > 0
       THEN idle' = idle - 1 /\ UNCHANGED threads
       ELSE /\ UNCHANGED idle
            /\ threads' = IF CanSpawnThread(threads, max_workers)
                          THEN threads + 1 ELSE threads
    /\ next' = next + 1
    /\ pc' = IF next = N THEN "collect" ELSE "submit"
    /\ UNCHANGED <<runner, raw, urls, max_workers, res, log, reported, file, blk,
                   wr, interrupted, is_ffmpeg_installed_cache, calls,
                   probes, san_vars, val_vars, pool_vars, sub_vars>>

\* A free worker thread takes the oldest queued item and calls the worker
\* function for it.
WorkerStart(i) ==
    /\ runner \in PoolRunners
    /\ pc \in {"submit", "collect", "shutdown"}
    /\ st[i] = "queued"
    /\ \A j \in 1..(i - 1) : st[j] # "queued"
    /\ Running < threads
    /\ st' = [st EXCEPT ![i] = "running"]
    /\ calls' = [calls EXCEPT ![i] = @ + 1]
    /\ UNCHANGED <<runner, raw, pc, urls, max_workers, next, res, threads, idle,
                   log, reported, file, blk, wr, interrupted,
                   is_ffmpeg_installed_cache, probes, san_vars, val_vars, pool_vars, sub_vars>>

\* download_video_and_audio returns in a pool thread; the thread is idle again.
WorkerFinish(i) ==
    /\ runner = "youtube_downloader"
    /\ st[i] = "running"
    /\ \E e \in Events(runner) :
           res' = [res EXCEPT ![i] = WorkerResult(runner, urls[i], e, "None")]
    /\ st' = [st EXCEPT ![i] = "finished"]
    /\ idle' = idle + 1
    /\ UNCHANGED <<runner, raw, pc, urls, max_workers, next, threads, log,
                   reported, file, blk, wr, interrupted,
                   is_ffmpeg_installed_cache, calls,
                   probes, san_vars, val_vars, pool_vars, sub_vars>>

\* extract_text: preprocessing or OCR raised, which is caught and printed.
OcrFail(i) ==
    /\ runner = "image_to_text"
    /\ st[i] = "running"
    /\ st' = [st EXCEPT ![i] = "finished"]
    /\ res' = [res EXCEPT ![i] = "None"]
    /\ idle' = idle + 1
    /\ UNCHANGED <<runner, raw, pc, urls, max_workers, next, threads, log,
                   reported, file, blk, wr, interrupted,
                   is_ffmpeg_installed_cache, calls,
                   probes, san_vars, val_vars, pool_vars, sub_vars>>

\* extract_text: the text is there and output_file.open("a") is entered.  The
\* block reaches the file in one raw write, or in two when the first write is
\* partial or the file object flushes in between.
OcrOpen(i) ==
    /\ runner = "image_to_text"
    /\ st[i] = "running"
    /\ st' = [st EXCEPT ![i] = "writing"]
    /\ \E n \in {1, 2} : blk' = [blk EXCEPT ![i] = n]
    /\ UNCHANGED <<runner, raw, pc, urls, max_workers, next, res, threads, idle,
                   log, reported, file, wr, interrupted,
                   is_ffmpeg_installed_cache, calls,
                   probes, san_vars, val_vars, pool_vars, sub_vars>>

\* One raw write of the block, appended at the end of the file.
OcrWrite(i) ==
    /\ runner = "image_to_text"
    /\ st[i] = "writing"
    /\ wr[i] < blk[i]
    /\ file' = Append(file, <<i, wr[i] + 1, blk[i]>>)
    /\ wr' = [wr EXCEPT ![i] = wr[i] + 1]
    /\ UNCHANGED <<runner, raw, pc, urls, max_workers, next, st, res, threads,
                   idle, log, reported, blk, interrupted,
                   is_ffmpeg_installed_cache, calls,
                   probes, san_vars, val_vars, pool_vars, sub_vars>>

\* The with block of extract_text is left and the call returns.
OcrClose(i) ==
    /\ runner = "image_to_text"
    /\ st[i] = "writing"
    /\ wr[i] = blk[i]
    /\ st' = [st EXCEPT ![i] = "finished"]
    /\ res' = [res EXCEPT ![i] = "None"]
    /\ idle' = idle + 1
    /\ UNCHANGED <<runner, raw, pc, urls, max_workers, next, threads, log,
                   reported, file, blk, wr, interrupted,
                   is_ffmpeg_installed_cache, calls,
                   probes, san_vars, val_vars, pool_vars, sub_vars>>

\* as_completed yields a finished future it has not yielded, and the runner
\* records its status line.
Collect(i) ==
    /\ pc = "collect"
    /\ FutureDone(st[i])
    /\ ~Logged(i)
    /\ log' = Append(log, <<i, LogStatus(runner, res[i])>>)
    /\ UNCHANGED <<runner, raw, pc, urls, max_workers, next, st, res, threads,
                   idle, file, blk, wr, reported, interrupted,
                   is_ffmpeg_installed_cache, calls,
                   probes, san_vars, val_vars, pool_vars, sub_vars>>

\* Every future was yielded: the with block of the executor is left and the
\* runner reports the end of the session.
PoolExit ==
    /\ pc = "collect"
    /\ \A i \in Items : Logged(i)
    /\ pc' = "done"
    /\ reported' = TRUE
    /\ UNCHANGED <<runner, raw, urls, max_workers, next, st, res, threads, idle,
                   log, file, blk, wr, interrupted, is_ffmpeg_installed_cache,
                   calls,
                   probes, san_vars, val_vars, pool_vars, sub_vars>>

\* A KeyboardInterrupt is raised in the main thread while the executor is in
\* use: the with block is left through executor.shutdown(wait=True), which
\* cancels nothing.
Interrupt ==
    /\ runner \in PoolRunners
    /\ pc \in {"submit", "collect"}
    /\ interrupted' = TRUE
    /\ pc' = "shutdown"
    /\ UNCHANGED <<runner, raw, urls, max_workers, next, st, res, threads, idle,
                   log, reported, file, blk, wr, is_ffmpeg_installed_cache,
                   calls,
                   probes, san_vars, val_vars, pool_vars, sub_vars>>

\* shutdown(wait=True) has joined the worker threads, which end when the queue
\* is empty; the interrupt goes on to the caller.
ShutdownDone ==
    /\ pc = "shutdown"
    /\ \A i \in Items : st[i] \in {"new", "finished"}
    /\ pc' = "aborted"
    /\ UNCHANGED <<runner, raw, urls, max_workers, next, st, res, threads, idle,
                   log, reported, file, blk, wr, interrupted,
                   is_ffmpeg_installed_cache, calls,
                   probes, san_vars, val_vars, pool_vars, sub_vars>>

\* What subprocess.run(["ffmpeg", "-version"], check=True) can do: return;
\* raise CalledProcessError, a SubprocessError, when ffmpeg exits with an
\* error; raise FileNotFoundError, an OSError, when there is no ffmpeg.
ProbeOutcomes == {"ok", "CalledProcessError", "FileNotFoundError"}

\* check_ffmpeg_installed that probes whether or not a value is cached.
check_ffmpeg_installed_uncached(cache, probe) ==
    CASE probe = "ok" -> "True"
      [] probe = "CalledProcessError" -> "False"
      [] OTHER -> cache

\* check_ffmpeg_installed of you2wav.py, as the value of the cache after the
\* call: the cached value if there is one; else True or False by the probe,
\* which is also what the call returns; a FileNotFoundError is not caught and
\* leaves the cache None.
check_ffmpeg_installed(cache, probe) ==
    IF cache # "None" THEN cache
    ELSE CASE probe = "ok" -> "True"
           [] probe = "CalledProcessError" -> "False"
           [] OTHER -> "None"

\* A sequential runner calls the worker for its next item; in you2wav the call
\* begins with check_ffmpeg_installed().
SeqCall ==
    /\ pc = "loop"
    /\ next <= N
    /\ st[next] = "new"
    /\ st' = [st EXCEPT ![next] = "running"]
    /\ calls' = [calls EXCEPT ![next] = @ + 1]
    /\ IF runner = "you2wav"
       THEN /\ \E probe \in ProbeOutcomes :
                 is_ffmpeg_installed_cache' =
                     check_ffmpeg_installed(is_ffmpeg_installed_cache, probe)
            /\ probes' = IF is_ffmpeg_installed_cache = "None"
                         THEN probes + 1 ELSE probes
       ELSE UNCHANGED <<is_ffmpeg_installed_cache, probes>>
    /\ UNCHANGED <<runner, raw, pc, urls, max_workers, next, res, threads, idle,
                   log, reported, file, blk, wr, interrupted, san_vars, val_vars, pool_vars, sub_vars>>

\* The call returns or raises.  A (success, message) pair is unpacked and its
\* status line printed; None is nothing to tok2wav, which unpacks nothing, and
\* a TypeError in the runners that unpack; an error the worker let out, and the
\* TypeError, leave the runner.
SeqReturn ==
    /\ pc = "loop"
    /\ next <= N
    /\ st[next] = "running"
    /\ \E e \in Events(runner) :
         LET r == WorkerResult(runner, urls[next], e, is_ffmpeg_installed_cache)
         IN  /\ res' = [res EXCEPT ![next] = r]
             /\ IF r \in {"True", "False"}
                THEN /\ log' = Append(log, <<next, LogStatus(runner, r)>>)
                     /\ next' = next + 1
                     /\ pc' = "loop"
                ELSE IF r = "None" /\ runner = "tok2wav"
                THEN /\ next' = next + 1
                     /\ UNCHANGED <<log, pc>>
                ELSE /\ pc' = "aborted"
                     /\ UNCHANGED <<log, next>>
    /\ st' = [st EXCEPT ![next] = "finished"]
    /\ UNCHANGED <<runner, raw, urls, max_workers, threads, idle, reported, file,
                   blk, wr, interrupted, is_ffmpeg_installed_cache, calls,
                   probes, san_vars, val_vars, pool_vars, sub_vars>>

\* The loop is over: "Download session completed."
SeqEnd ==
    /\ pc = "loop"
    /\ next > N
    /\ pc' = "done"
    /\ reported' = TRUE
    /\ UNCHANGED <<runner, raw, urls, max_workers, next, st, res, threads, idle,
                   log, file, blk, wr, interrupted, is_ffmpeg_installed_cache,
                   calls,
                   probes, san_vars, val_vars, pool_vars, sub_vars>>

Next ==
    \/ Start
    \/ Submit
    \/ \E i \in Items : WorkerStart(i)
    \/ \E i \in Items : WorkerFinish(i)
    \/ \E i \in Items : OcrFail(i)
    \/ \E i \in Items : OcrOpen(i)
    \/ \E i \in Items : OcrWrite(i)
    \/ \E i \in Items : OcrClose(i)
    \/ \E i \in Items : Collect(i)
    \/ PoolExit
    \/ Interrupt
    \/ ShutdownDone
    \/ SeqCall
    \/ SeqReturn
    \/ SeqEnd

Spec == Init /\ [][Next]_vars

(***************************************************************************)
(* The claims.                                                             *)
(***************************************************************************)
Failures == {i \in Items : res[i] \in {"False", "None", "Raise"}}
StatusLines(status) == {k \in 1..Len(log) : log[k][2] = status}
LinesOf(i) == {k \in 1..Len(log) : log[k][1] = i}

\* C1: when a run is over and nobody interrupted it, every accepted item was
\* executed and the runner reached its end of session report, whatever failed.
FailureIsolated ==
    (~interrupted /\ pc \in {"done", "aborted"} /\ N > 0)
    => (reported /\ \A i \in Items : st[i] = "finished")

\* C2: YouTubeDownloader.download_videos_from_file never records two results
\* for an item, and when it returns it has recorded one result for each of the
\* N items: a failed one for each of the K items whose call failed, a
\* successful one for each of the others.
OneResultPerItem ==
    runner = "youtube_downloader" =>
        /\ \A i \in Items : Cardinality(LinesOf(i)) <= 1
        /\ pc = "done" =>
              /\ Len(log) = N
              /\ \A i \in Items : Cardinality(LinesOf(i)) = 1
              /\ Cardinality(StatusLines("Failed")) = Cardinality(Failures)
              /\ Cardinality(StatusLines("Success")) = N - Cardinality(Failures)

\* Three items on two workers, one of them failed, all three reported.
OneResultPerItemWitness ==
    /\ runner = "youtube_downloader"
    /\ pc = "done"
    /\ max_workers = 2
    /\ N = 3
    /\ Cardinality(Failures) = 1
    /\ Cardinality(StatusLines("Failed")) = 1

\* C3: the raw writes of a block stand together in extracted_text.txt: the
\* write after a block's k-th of n, k < n, is that block's next.
BlocksIntact ==
    runner = "image_to_text" =>
        \A k \in 1..Len(file) :
            (file[k][2] < file[k][3] /\ k < Len(file))
            => file[k + 1] = <<file[k][1], file[k][2] + 1, file[k][3]>>

\* C4: no two workers are inside the open-append-write section of extract_text
\* at the same time.
WritersExclusive == Cardinality({i \in Items : st[i] = "writing"}) <= 1

\* C5: the items whose call is in flight are never more than the size of the
\* pool.
InFlightBounded ==
    (runner \in PoolRunners /\ pc # "start") => Running <= max_workers

\* The pool is full and an accepted item waits for a thread.
InFlightBoundedWitness ==
    /\ runner = "youtube_downloader"
    /\ Running = max_workers
    /\ \E i \in Items : st[i] = "queued"

\* C6: once the run was asked to stop, no item that no worker has taken is
\* started.
NoStartAfterStop ==
    [][interrupted =>
          \A i \in Items : st[i] \in {"new", "queued"} => st'[i] = st[i]]_vars

\* The lines the runner accepts, in their order, are the items q.
RECURSIVE IsAcceptedSubsequence(_, _, _)
IsAcceptedSubsequence(r, lines, q) ==
    IF lines = <<>> THEN q = <<>>
    ELSE IF Accepts(r, Head(lines))
         THEN /\ q # <<>>
              /\ Head(q) = Item(r, Head(lines))
              /\ IsAcceptedSubsequence(r, Tail(lines), Tail(q))
         ELSE IsAcceptedSubsequence(r, Tail(lines), q)

\* C7: the list of items is the lines the validator accepts, in input order,
\* and the worker is called for no line the validator rejects.
QueueIsAcceptedSubsequence ==
    pc # "start" =>
        /\ IsAcceptedSubsequence(runner, raw, urls)
        /\ \A i \in Items :
              st[i] # "new" =>
                  \E j \in 1..Len(raw) :
                      Accepts(runner, raw[j]) /\ urls[i] = Item(runner, raw[j])

\* [valid, "not a url", valid]: two items, both fetched.
QueueIsAcceptedSubsequenceWitness ==
    /\ runner = "youtube_downloader"
    /\ raw = <<UrlA, NotUrl, UrlA>>
    /\ N = 2
    /\ pc = "done"
    /\ \A i \in Items : st[i] = "finished"

\* C8: a runner none of whose lines passes validation starts no thread and
\* calls the worker for no item; the runners with an early return are back at
\* it, without a report.
EmptyQueueStartsNothing ==
    (pc # "start" /\ \A j \in 1..Len(raw) : ~Accepts(runner, raw[j]))
    => /\ threads = 0
       /\ \A i \in Items : st[i] = "new"
       /\ log = <<>>
       /\ runner \notin {"tok2wav", "image_to_text"} => (pc = "done" /\ ~reported)

\* A file of two lines, neither a url: the runner has returned.
EmptyQueueStartsNothingWitness ==
    /\ runner = "youtube_downloader"
    /\ raw = <<NotUrl, NotUrl>>
    /\ pc = "done"
    /\ threads = 0

\* C9: sanitizing a sanitized name, with the same cap, gives the same name.
SanitizeIdempotent == san_pc = "twice" => san_out2 = san_out

\* A title cut at the byte cap inside a multi-byte character, sanitized twice.
SanitizeIdempotentWitness ==
    /\ san_pc = "twice"
    /\ san_variant = "nfkd"
    /\ san_title = <<"a", " ", "ga">>
    /\ san_cap = 4
    /\ san_out = <<"a">>

\* C10: the sanitized name of a non-empty printable title is not empty, even
\* when the cap cuts nothing of it.
SanitizeNonEmpty ==
    (/\ san_pc = "once"
     /\ san_title # <<>>
     /\ san_cap >= Len(EncodeUtf8(normalize_NFKD(san_title))))
    => san_out # <<>>
\* C11: the UTF-8 encoding of a sanitized name is at most max_length bytes
\* long, and the name holds whole characters of the title only: nothing stands
\* in it for the bytes of a character cut at the cap.
SanitizeWithinByteCap ==
    san_pc # "title" =>
        /\ Len(EncodeUtf8(san_out)) <= san_cap
        /\ \A k \in 1..Len(san_out) : san_out[k] # "replacement"

\* The cap falls inside the three bytes of the second character, which is
\* dropped whole.
SanitizeWithinByteCapWitness ==
    /\ san_pc = "once"
    /\ san_variant = "nfkd"
    /\ san_title = <<"a", "han">>
    /\ san_cap \in {2, 3}
    /\ san_out = <<"a">>

\* C12: a sanitized name holds no path separator and no reserved character.
SanitizeNoReservedChars ==
    san_pc # "title" =>
        \A k \in 1..Len(san_out) :
            san_out[k] \notin {"/", "\\", ":", "*", "?", "\"", "<", ">", "|"}

\* A title with a path separator and a reserved character between letters.
SanitizeNoReservedCharsWitness ==
    /\ san_pc = "once"
    /\ san_title = <<"a", "/", "?">>
    /\ san_cap = MaxCap
    /\ san_out = <<"a">>

\* C13: a sanitized name does not begin with "_" and does not end with "_" or
\* with a period.
SanitizeEdgesClean ==
    (san_pc # "title" /\ san_out # <<>>) =>
        /\ san_out[1] # "_"
        /\ san_out[Len(san_out)] \notin {"_", "."}

\* My_Video_Test
ScenarioName ==
    <<"M", "y", "_", "V", "i", "d", "e", "o", "_", "T", "e", "s", "t">>

\* C14: My: Video? <Test> gives My_Video_Test; and a sanitized name holds word
\* characters and hyphens only, with one "_" for each run of whitespace of the
\* title: no whitespace, and no two "_" in a row unless the title has a "_".
SanitizeRemovesAndCollapses ==
    san_pc # "title" =>
        /\ (san_title = ScenarioTitle /\ san_cap = DefaultMaxLength)
               => san_out = ScenarioName
        /\ \A k \in 1..Len(san_out) : IsWord(san_out[k]) \/ san_out[k] = "-"
        /\ (\A k \in 1..Len(san_title) : san_title[k] # "_")
               => \A k \in 1..(Len(san_out) - 1) :
                      ~(san_out[k] = "_" /\ san_out[k + 1] = "_")

\* The canonical urls of the sources a validator is for.
Canonical(kind) ==
    IF kind = "tok2wav"
    THEN {<<L_https, L_www, <<"t", "i", "k", "t", "o", "k", ".", "c", "o", "m">>,
            <<"/", "@", "u">> \o L_video \o <<"1">>>>}
    ELSE {<<L_https, L_www, L_youtube \o <<"c", "o", "m">>, L_watch \o <<"a">>>>,
          <<L_https, <<>>, <<"y", "o", "u", "t", "u", ".", "b", "e">>, <<"/", "a">>>>}

\* The hosts of the other source.
ForeignHosts(kind) ==
    IF kind = "tok2wav"
    THEN {h \in Hosts : h # <<>> /\ Lower(h[1]) = "y"}
    ELSE {h \in Hosts : h # <<>> /\ Lower(h[1]) = "t"}

\* C15: a validator gives a boolean for every text; FALSE for the empty text,
\* for a text with no host and for a url of the other source; TRUE for the
\* canonical urls of its source.
ValidatorTotal ==
    val_pc # "url" =>
        /\ val_out \in BOOLEAN
        /\ UrlOf(val_parts) = <<>> => ~val_out
        /\ val_parts[3] = <<>> => ~val_out
        /\ val_parts[3] \in ForeignHosts(val_kind) => ~val_out
        /\ val_parts \in Canonical(val_kind) => val_out

\* A canonical url was accepted.
ValidatorTotalWitness ==
    /\ val_pc = "once"
    /\ val_parts \in Canonical(val_kind)
    /\ val_out

\* C16: a url is accepted exactly when the same url with its scheme and host
\* in lower case is.
ValidatorIgnoresCase == val_pc = "done" => val_out = val_out_lower

\* C17: the end of session report of YouTubeDownloader.download_videos_from_file
\* gives the number of successes and the number of failures, which add up to
\* the number of accepted items.
TallyReported ==
    (runner = "youtube_downloader" /\ pc = "done" /\ reported) =>
        LET report == SessionReport(runner)
        IN  /\ Len(report) = 3
            /\ report[2] = Cardinality(StatusLines("Success"))
            /\ report[3] = Cardinality(StatusLines("Failed"))
            /\ report[2] + report[3] = N

\* C18: the worker is called at most once for an item, and when a run that
\* nobody interrupted is over it has been called once for every accepted item.
FetchedExactlyOnce ==
    /\ \A i \in Items : calls[i] <= 1
    /\ (~interrupted /\ pc \in {"done", "aborted"} /\ N > 0)
           => \A i \in Items : calls[i] = 1

\* C19: a status line is recorded for an item only when the one call of the
\* worker for it has been made and has returned.
ResultAfterCall ==
    \A i \in Items : Logged(i) => (st[i] = "finished" /\ calls[i] = 1)

\* The result of the second item is recorded while the call for the first,
\* which began earlier, is still running.
ResultAfterCallWitness ==
    /\ runner \in PoolRunners
    /\ N >= 2
    /\ Logged(2)
    /\ st[1] = "running"

\* C20: every call of download_video_and_audio, of download_and_process_video
\* and of download_subtitles that is over has given a (success, message) pair:
\* it has not returned None and has let no error out.
WorkerReturnsOutcome ==
    runner \in {"youtube_downloader", "audio_converter", "you2wav", "you2text"} =>
        \A i \in Items : st[i] = "finished" => res[i] \in {"True", "False"}

\* The grammar of the urls of a runner's source.
UrlGrammar(r, s) ==
    IF r = "tok2wav" THEN is_valid_tiktok_url(s) ELSE YoutubeRegexMatch(s)

\* The lines a run can read whose trimmed form matches the grammar.
TrimmedMatches ==
    [r \in Runners \ {"image_to_text"} |->
        {l \in InputLines(r) : UrlGrammar(r, StripSpace(l))}]

\* The trimmed forms of the lines whose trimmed form matches, in input order.
TrimmedAccepted(r, lines) ==
    LET kept == SelectSeq(lines, LAMBDA l : l \in TrimmedMatches[r])
    IN  [i \in 1..Len(kept) |-> StripSpace(kept[i])]

\* C21: in every runner that reads urls the items are the trimmed forms of
\* exactly the lines whose trimmed form matches the url grammar; a blank line
\* gives no item.
LinesValidatedTrimmed ==
    (pc # "start" /\ runner # "image_to_text") =>
        urls = TrimmedAccepted(runner, raw)

\* C24: once is_ffmpeg_installed_cache is True or False it does not change and
\* no call probes again; the probe is run at most once.
FfmpegProbedOnce ==
    [][/\ is_ffmpeg_installed_cache # "None" =>
              /\ is_ffmpeg_installed_cache' = is_ffmpeg_installed_cache
              /\ probes' = probes
       /\ probes' <= 1]_vars

\* The worker was called for a second item of you2wav with the value cached by
\* the call for the first.
FfmpegProbedOnceWitness ==
    /\ runner = "you2wav"
    /\ N >= 2
    /\ calls[2] = 1
    /\ probes = 1
    /\ is_ffmpeg_installed_cache = "True"

\* C22: the pool of extract_text_from_images has at least 4 and at most 32
\* threads, whatever the number of CPUs.
PoolSizeInRange == pool_pc = "sized" => (4 <= pool_size /\ pool_size <= 32)

\* A machine with more than 28 CPUs: the cap decides.
PoolSizeInRangeWitness ==
    /\ pool_pc = "sized"
    /\ pool_cpu > 28
    /\ pool_size = 32

\* C23: for a valid url whose info was fetched, download_subtitles calls the
\* download for the manual subtitles of the language when there are some, for
\* the automatic captions when there are only those, and when there are
\* neither returns the failure "No subtitles found" without calling it; a
\* download that went through gives success.
SubtitlesFallBackToAuto ==
    (sub_pc = "done" /\ is_valid_youtube_url(sub_url) /\ sub_e_info = "ok") =>
        /\ sub_manual => (sub_out.downloads = 1 /\ sub_out.track = "manual")
        /\ (~sub_manual /\ sub_auto) =>
               (sub_out.downloads = 1 /\ sub_out.track = "auto")
        /\ (~sub_manual /\ ~sub_auto) =>
               /\ sub_out.outcome = "False"
               /\ sub_out.message = "No subtitles found"
               /\ sub_out.downloads = 0
        /\ (sub_out.downloads = 1 /\ sub_e_download = "ok") =>
               sub_out.outcome = "True"

\* Automatic captions only, and they were downloaded.
SubtitlesFallBackToAutoWitness ==
    /\ sub_pc = "done"
    /\ ~sub_manual
    /\ sub_auto
    /\ sub_out.track = "auto"
    /\ sub_out.outcome = "True"

====
